---- MODULE Spec2Model ----
(***************************************************************************)
(* Model of src/src/generator.py: TaskGenerator of the colour subtraction  *)
(* data generator.  generate_task_pair samples two colours, mixes them,    *)
(* samples two ball centres by bounded rejection sampling, renders the two *)
(* still images and, when a video generator exists, builds the animation   *)
(* frames and hands them to the encoder.                                   *)
(*                                                                         *)
(* The Python float (binary64) and numpy float32 arithmetic of the colour  *)
(* normalisation is modelled bit-exactly.  A float is a record             *)
(* [mant, exp]: a significand of exactly p bits, kept as a big integer,    *)
(* and the exponent of its last bit; every operation rounds to nearest,    *)
(* ties to even.  A big integer is a little-endian sequence of limbs below *)
(* LimbBase, small enough for limb * 1023 to stay a machine integer of the *)
(* model checker.                                                          *)
(***************************************************************************)
EXTENDS Integers, Sequences, FiniteSets, TLC

(***************************************************************************)
(* Big integers                                                            *)
(***************************************************************************)

LimbBits == 21

LimbBase == 2 ^ LimbBits

RECURSIVE BigNorm(_)
\* Without most significant zero limbs (<<>> is 0).
BigNorm(L) ==
    IF L = <<>> \/ L[Len(L)] # 0 THEN L ELSE BigNorm(SubSeq(L, 1, Len(L) - 1))

BigOfNat(n) == BigNorm(<<n % LimbBase, n \div LimbBase>>)

\* Value of a big integer below 2^31.
BigToNat(L) ==
    IF L = <<>> THEN 0
    ELSE IF Len(L) = 1 THEN L[1]
    ELSE L[1] + LimbBase * L[2]

RECURSIVE BigMulAcc(_, _, _, _)
BigMulAcc(L, s, i, carry) ==
    IF i > Len(L) THEN BigOfNat(carry)
    ELSE LET v == L[i] * s + carry
         IN  <<v % LimbBase>> \o BigMulAcc(L, s, i + 1, v \div LimbBase)

\* L * s for a natural number s < 1024.
BigMulSmall(L, s) == BigNorm(BigMulAcc(L, s, 1, 0))

RECURSIVE BigAddAcc(_, _, _)
BigAddAcc(L, i, carry) ==
    IF i > Len(L) THEN BigOfNat(carry)
    ELSE LET v == L[i] + carry
         IN  <<v % LimbBase>> \o BigAddAcc(L, i + 1, v \div LimbBase)

\* L + c for a small natural number c.
BigAddSmall(L, c) == BigNorm(BigAddAcc(L, 1, c))

\* Number of bits of a normalised big integer.
BigBitLen(L) ==
    IF L = <<>> THEN 0
    ELSE (Len(L) - 1) * LimbBits
         + (CHOOSE k \in 1..LimbBits : 2 ^ (k - 1) <= L[Len(L)] /\ L[Len(L)] < 2 ^ k)

\* Bit n (bit 0 is the last) of L.
BigBit(L, n) ==
    IF n \div LimbBits + 1 > Len(L) THEN 0
    ELSE (L[n \div LimbBits + 1] \div 2 ^ (n % LimbBits)) % 2

\* Whether the n last bits of L hold a one.
BigLowNonZero(L, n) ==
    \/ \E i \in 1..Len(L) : i <= n \div LimbBits /\ L[i] # 0
    \/ /\ n \div LimbBits + 1 <= Len(L)
       /\ L[n \div LimbBits + 1] % 2 ^ (n % LimbBits) # 0

\* floor(L / 2^n).
BigShr(L, n) ==
    LET q == n \div LimbBits
        r == n % LimbBits
    IN  IF q >= Len(L) THEN <<>>
        ELSE BigNorm([i \in 1..(Len(L) - q) |->
                 (L[i + q] \div 2 ^ r)
                 + (IF i + q + 1 <= Len(L)
                    THEN (L[i + q + 1] % 2 ^ r) * 2 ^ (LimbBits - r)
                    ELSE 0)])

\* L * 2^n.
BigShl(L, n) ==
    LET q == n \div LimbBits
        r == n % LimbBits
    IN  BigNorm([i \in 1..(Len(L) + q + 1) |->
            (IF q < i /\ i - q <= Len(L)
             THEN (L[i - q] % 2 ^ (LimbBits - r)) * 2 ^ r ELSE 0)
            + (IF q + 1 < i /\ i - q - 1 <= Len(L)
               THEN L[i - q - 1] \div 2 ^ (LimbBits - r) ELSE 0)])

(***************************************************************************)
(* Binary floating point (IEEE 754, round to nearest, ties to even)        *)
(***************************************************************************)

\* Significand width of a Python float (binary64).
Prec64 == 53

\* Significand width of a numpy float32.
Prec32 == 24

FloatZero == [mant |-> <<>>, exp |-> 0]

\* The exact value L * 2^e, plus a non-zero part below the last bit of L
\* when sticky, rounded to a float of p significant bits.
RoundNE(L, e, sticky, p) ==
    LET n == BigBitLen(L)
        d == n - p
    IN  IF n = 0 THEN FloatZero
        ELSE IF d <= 0 THEN [mant |-> BigShl(L, -d), exp |-> e + d]
        ELSE LET kept  == BigShr(L, d)
                 guard == BigBit(L, d - 1)
                 rest  == sticky \/ BigLowNonZero(L, d - 1)
                 up    == guard = 1 /\ (rest \/ BigBit(L, d) = 1)
                 M     == IF up THEN BigAddSmall(kept, 1) ELSE kept
             IN  IF BigBitLen(M) > p
                 THEN [mant |-> BigShr(M, 1), exp |-> e + d + 1]
                 ELSE [mant |-> M, exp |-> e + d]

RECURSIVE LongDiv(_, _, _)
\* t more quotient limbs of r / d (0 <= r < d < 1024), and the remainder.
LongDiv(r, d, t) ==
    IF t = 0 THEN [limbs |-> <<>>, rem |-> r]
    ELSE LET tail == LongDiv((r * LimbBase) % d, d, t - 1)
         IN  [limbs |-> Append(tail.limbs, (r * LimbBase) \div d),
              rem   |-> tail.rem]

\* Quotient limbs that hold p + 2 bits of any quotient above 2^-9.
DivLimbs(p) == (p + 11) \div LimbBits + 1

\* The float n / d of two naturals, 0 < d < 1024, d / 512 <= n < 2^31.
FloatDiv(n, d, p) ==
    LET fr == LongDiv(n % d, d, DivLimbs(p))
    IN  RoundNE(BigNorm(fr.limbs \o BigOfNat(n \div d)),
                -(LimbBits * DivLimbs(p)), fr.rem # 0, p)

\* The float s * f of a natural number s < 1024 and a float f.
FloatMulNat(s, f, p) == RoundNE(BigMulSmall(f.mant, s), f.exp, FALSE, p)

\* The float of a natural number.
FloatOfNat(n, p) == RoundNE(BigOfNat(n), 0, FALSE, p)

\* int(f), and astype to an integer type, of a float 0 <= f < 2^31:
\* truncation.
FloatTrunc(f) ==
    BigToNat(IF f.exp >= 0 THEN BigShl(f.mant, f.exp)
             ELSE BigShr(f.mant, -f.exp))

RECURSIVE BigLtFrom(_, _, _)
BigLtFrom(A, B, i) ==
    IF i = 0 THEN FALSE
    ELSE IF A[i] # B[i] THEN A[i] < B[i]
    ELSE BigLtFrom(A, B, i - 1)

\* A < B for normalised big integers.
BigLt(A, B) ==
    IF Len(A) # Len(B) THEN Len(A) < Len(B) ELSE BigLtFrom(A, B, Len(A))

\* f < g for non-negative floats of one width (significands of equal length).
FloatLt(f, g) ==
    IF g.mant = <<>> THEN FALSE
    ELSE IF f.mant = <<>> THEN TRUE
    ELSE IF f.exp # g.exp THEN f.exp < g.exp
    ELSE BigLt(f.mant, g.mant)

\* max(f, g), np.maximum(f, g).
FloatMax(f, g) == IF FloatLt(f, g) THEN g ELSE f

\* f > n for a float 0 <= f < 2^31 and a natural number n.
FloatGtNat(f, n) ==
    \/ FloatTrunc(f) > n
    \/ FloatTrunc(f) = n /\ f.exp < 0 /\ BigLowNonZero(f.mant, -f.exp)


(***************************************************************************)
(* Exact rationals: the geometry of the animation                          *)
(*                                                                         *)
(* final_pos and the interpolated centres are Python floats.  They are     *)
(* carried here as reduced fractions [n, d], the real numbers the float    *)
(* expressions denote.  The float computation yields exactly these values  *)
(* whenever progress is a dyadic rational, in particular at progress 0 and *)
(* 1 and for final_pos itself (ProgressExact below).                       *)
(***************************************************************************)

Abs(n) == IF n < 0 THEN -n ELSE n

RECURSIVE GCD(_, _)
GCD(a, b) == IF b = 0 THEN a ELSE GCD(b, a % b)

\* The fraction n / d (d > 0) in lowest terms.
Rat(n, d) ==
    LET g == GCD(Abs(n), d)
    IN  [n |-> n \div g, d |-> d \div g]

RatOfInt(n) == [n |-> n, d |-> 1]

RatAdd(a, b) == Rat(a.n * b.d + b.n * a.d, a.d * b.d)

RatSub(a, b) == Rat(a.n * b.d - b.n * a.d, a.d * b.d)

RatMul(a, b) == Rat(a.n * b.n, a.d * b.d)

RatLt(a, b) == a.n * b.d < b.n * a.d

RatLe(a, b) == a.n * b.d <= b.n * a.d

\* int(a): truncation toward zero.
RatTrunc(a) == IF a.n >= 0 THEN a.n \div a.d ELSE -((-a.n) \div a.d)

(***************************************************************************)
(* Configuration and inputs                                                *)
(***************************************************************************)

\* Bounds of the caller-supplied configurations explored.
MaxWidth == 4

MaxHeight == 3

MaxMargin == 1

MaxRadius == 1

MaxMinDistance == 4

\* TaskConfig as the generator reads it: image_size, edge_margin,
\* ball_radius, min_distance, generate_videos.  Nothing validates it.
Configs ==
    [image_size      : (0..MaxWidth) \X (0..MaxHeight),
     edge_margin     : 0..MaxMargin,
     ball_radius     : 0..MaxRadius,
     min_distance    : 0..MaxMinDistance,
     generate_videos : BOOLEAN]

\* random.randint(50, 255) of the colour channels.
MinChannel == 50

MaxChannel == 255

\* Number of evenly spaced channel values explored between MinChannel and
\* MaxChannel.
NumShades == 2

\* Channel values whose sums hit the rounding cases of the normalisation.
RoundingProbes == {159, 160}

Channels ==
    {MinChannel + ((MaxChannel - MinChannel) * k) \div (NumShades - 1) :
        k \in 0..(NumShades - 1)}
    \cup RoundingProbes

\* The colour pairs explored by the colour-mixing specification.
MixColorPairs ==
    (Channels \X Channels \X Channels) \X (Channels \X Channels \X Channels)

\* The colour pairs explored by the specification of the whole pipeline:
\* the brightest, the darkest, and a pair that needs rounding.
PipelineColorPairs ==
    {<<<<MaxChannel, MaxChannel, MaxChannel>>,
       <<MaxChannel, MaxChannel, MaxChannel>>>>,
     <<<<MinChannel, MinChannel, MinChannel>>,
       <<MinChannel, MinChannel, MinChannel>>>>,
     <<<<160, MinChannel, MinChannel>>, <<159, MinChannel, MinChannel>>>>}

\* Bounds of the frame counts explored besides the defaults.
MaxHold == 1

MaxTransition == 3

\* for _ in range(100)
MaxAttempts == 100

\* hold_frames: int = 5
DefaultHoldFrames == 5

\* transition_frames: int = 25
DefaultTransitionFrames == 25

None == "None"

\* A variable that holds no record yet (and the scale that line 100 never
\* computed).
NoRecord == [none |-> TRUE]

\* A variable that holds no colour yet, and the fill of an ellipse drawn
\* with an outline only.
NoColor == <<>>

(***************************************************************************)
(* Colour mixing of _generate_task_data (Python int and float)             *)
(***************************************************************************)

Max3(a, b, c) ==
    IF a >= b /\ a >= c THEN a ELSE IF b >= c THEN b ELSE c

\* A sum that takes the first channel of the second colour for every channel.
AdditiveSumSlip(c1, c2) == [k \in 1..3 |-> c1[k] + c2[1]]

\* additive_r, additive_g, additive_b
AdditiveSum(c1, c2) == [k \in 1..3 |-> c1[k] + c2[k]]

\* max_value = max(additive_r, additive_g, additive_b)
MaxValue(additive) == Max3(additive[1], additive[2], additive[3])

\* A scale of 256.0 / max_value.
ScaleOfByteCount(max_value) ==
    IF max_value > 255 THEN FloatDiv(256, max_value, Prec64) ELSE NoRecord

\* scale = 255.0 / max_value, computed only if max_value > 255
ScaleOf(max_value) ==
    IF max_value > 255 THEN FloatDiv(255, max_value, Prec64) ELSE NoRecord

\* A normalisation that never scales.
NormalizeUnscaled(additive, sc) == additive

\* normalized_r, normalized_g, normalized_b: int(additive * scale), or
\* int(additive) when nothing is scaled
Normalize(additive, sc) ==
    IF sc = NoRecord THEN additive
    ELSE [k \in 1..3 |-> FloatTrunc(FloatMulNat(additive[k], sc, Prec64))]

\* mixed_r, mixed_g, mixed_b
Subtract(norm) == [k \in 1..3 |-> 255 - norm[k]]

\* mixed_color as lines 90-114 compute it.
MixedColor(c1, c2) ==
    Subtract(Normalize(AdditiveSum(c1, c2),
                       ScaleOf(MaxValue(AdditiveSum(c1, c2)))))

(***************************************************************************)
(* Overlap colour of _create_mixing_animation_frames (numpy float32,       *)
(* uint8): the arrays of lines 318-348 at one pixel                        *)
(***************************************************************************)

\* astype(np.uint8) of a float below 2^31, and uint8 arithmetic: modulo 256.
Uint8(n) == n % 256

OverlapPixel(c1, c2, in_overlap) ==
    LET \* overlap_additive_r/g/b: np.zeros, then the sums where overlap_mask
        overlap_additive ==
            [k \in 1..3 |-> IF in_overlap
                            THEN FloatOfNat(c1[k] + c2[k], Prec32)
                            ELSE FloatZero]
        max_per_pixel ==
            FloatMax(FloatMax(overlap_additive[1], overlap_additive[2]),
                     overlap_additive[3])
        scale_mask == FloatGtNat(max_per_pixel, 255)
        \* np.ones, then 255.0 / max_per_pixel where scale_mask
        scale_factor ==
            IF scale_mask
            THEN FloatDiv(255, FloatTrunc(max_per_pixel), Prec32)
            ELSE FloatOfNat(1, Prec32)
        \* overlap_additive * scale_factor: the sums are whole numbers
        product ==
            [k \in 1..3 |-> FloatMulNat(FloatTrunc(overlap_additive[k]),
                                        scale_factor, Prec32)]
        overlap_normalized == [k \in 1..3 |-> Uint8(FloatTrunc(product[k]))]
        overlap_mixed == [k \in 1..3 |-> Uint8(255 - overlap_normalized[k])]
    IN  [overlap_additive   |-> overlap_additive,
         scale_factor       |-> scale_factor,
         product            |-> product,
         overlap_normalized |-> overlap_normalized,
         overlap_mixed      |-> overlap_mixed]

(***************************************************************************)
(* Position sampling of _generate_task_data                                *)
(***************************************************************************)

Width(c) == c.image_size[1]

Height(c) == c.image_size[2]

\* random.randint(margin, width - margin)
XRange(c) == c.edge_margin..(Width(c) - c.edge_margin)

\* random.randint(margin, height - margin)
YRange(c) == c.edge_margin..(Height(c) - c.edge_margin)

\* random.randint(a, b) raises ValueError on an empty range.
RangesNonEmpty(c) == XRange(c) # {} /\ YRange(c) # {}

\* (x2 - x1) ** 2 + (y2 - y1) ** 2
SquaredDistance(p1, p2) ==
    (p2[1] - p1[1]) * (p2[1] - p1[1]) + (p2[2] - p1[2]) * (p2[2] - p1[2])

\* math.sqrt(n) >= d for integers n >= 0 and d >= 0: the correctly rounded
\* square root of n is at least d exactly when n >= d * d.
FarEnough(p1, p2, min_dist) == SquaredDistance(p1, p2) >= min_dist * min_dist

\* mid_x, mid_y = (x1 + x2) / 2, (y1 + y2) / 2
Midpoint(p1, p2) == <<Rat(p1[1] + p2[1], 2), Rat(p1[2] + p2[2], 2)>>

\* The dictionary _generate_task_data returns.
TaskData(c1, c2, mixed, p1, p2) ==
    [color1      |-> c1,
     color2      |-> c2,
     mixed_color |-> mixed,
     ball1_pos   |-> p1,
     ball2_pos   |-> p2,
     final_pos   |-> Midpoint(p1, p2),
     type        |-> "default"]

\* x1, y1 = width // 4, height // 2
FallbackBall1(c) == <<Width(c) \div 4, Height(c) \div 2>>

\* x2, y2 = 3 * width // 4, height // 2
FallbackBall2(c) == <<(3 * Width(c)) \div 4, Height(c) \div 2>>

(***************************************************************************)
(* Rendering                                                               *)
(***************************************************************************)

White == <<255, 255, 255>>

Black == <<0, 0, 0>>

\* np.ogrid[:height, :width]: the pixel coordinates <<x, y>>.
Pixels(c) == (0..(Width(c) - 1)) \X (0..(Height(c) - 1))

\* renderer.create_blank_image(bg_color=(255, 255, 255)), and
\* np.ones((height, width, 3), dtype=np.uint8) * 255
BlankArray(c) == [p \in Pixels(c) |-> White]

\* draw.ellipse(bbox, fill=..., outline=(0, 0, 0), width=2); the rasteriser
\* is the imaging library's.
Ellipse(bbox, fill) ==
    [bbox |-> bbox, fill |-> fill, outline |-> Black, width |-> 2]

\* (cx - radius, cy - radius, cx + radius, cy + radius)
BBox(centre, radius) ==
    <<RatSub(centre[1], RatOfInt(radius)), RatSub(centre[2], RatOfInt(radius)),
      RatAdd(centre[1], RatOfInt(radius)), RatAdd(centre[2], RatOfInt(radius))>>

\* (int(cx - radius), int(cy - radius), int(cx + radius), int(cy + radius))
IntBBox(centre, radius) ==
    [k \in 1..4 |-> RatOfInt(RatTrunc(BBox(centre, radius)[k]))]

RatPoint(p) == <<RatOfInt(p[1]), RatOfInt(p[2])>>

\* _render_initial_state
RenderInitial(c, td) ==
    [array    |-> BlankArray(c),
     ellipses |-> <<Ellipse(BBox(RatPoint(td.ball1_pos), c.ball_radius), td.color1),
                    Ellipse(BBox(RatPoint(td.ball2_pos), c.ball_radius), td.color2)>>]

\* _render_final_state
RenderFinal(c, td) ==
    [array    |-> BlankArray(c),
     ellipses |-> <<Ellipse(BBox(td.final_pos, c.ball_radius), td.mixed_color)>>]

\* progress = i / (transition_frames - 1) if transition_frames > 1 else 1.0
Progress(i, transition_frames) ==
    IF transition_frames > 1 THEN Rat(i, transition_frames - 1) ELSE RatOfInt(1)

\* Whether the float progress is the exact quotient (a dyadic rational).
ProgressExact(i, transition_frames) ==
    \E e \in 0..30 : Progress(i, transition_frames).d = 2 ^ e

\* start + (final - start) * progress, per coordinate
Lerp(start, final, progress) ==
    [k \in 1..2 |->
        RatAdd(RatOfInt(start[k]),
               RatMul(RatSub(final[k], RatOfInt(start[k])), progress))]

\* The square of the distance of two rational points.
RatSquaredDistance(a, b) ==
    RatAdd(RatMul(RatSub(b[1], a[1]), RatSub(b[1], a[1])),
           RatMul(RatSub(b[2], a[2]), RatSub(b[2], a[2])))

\* A test that also takes touching disks, distance <= 2 * radius.
OverlappingOrTouching(b1, b2, radius) ==
    RatLe(RatSquaredDistance(b1, b2), RatOfInt((2 * radius) * (2 * radius)))

\* distance < 2 * radius
Overlapping(b1, b2, radius) ==
    RatLt(RatSquaredDistance(b1, b2), RatOfInt((2 * radius) * (2 * radius)))

\* dist <= radius: ball1_mask, ball2_mask at pixel p
InDisk(p, centre, radius) ==
    RatLe(RatSquaredDistance(RatPoint(p), centre), RatOfInt(radius * radius))

\* overlap_mask at pixel p
OverlapMask(p, b1, b2, radius) == InDisk(p, b1, radius) /\ InDisk(p, b2, radius)

\* img_array of the overlapping path, after the three masked assignments.
\* The overlap arrays hold one value at every pixel of the mask, computed
\* from the two colour constants.
OverlapArray(c, td, b1, b2) ==
    LET inside == OverlapPixel(td.color1, td.color2, TRUE).overlap_mixed
    IN  [p \in Pixels(c) |->
            IF OverlapMask(p, b1, b2, c.ball_radius) THEN inside
            ELSE IF InDisk(p, b2, c.ball_radius) THEN td.color2
            ELSE IF InDisk(p, b1, c.ball_radius) THEN td.color1
            ELSE White]

\* The frame of transition index i.
TransitionFrame(c, td, i, transition_frames) ==
    LET progress == Progress(i, transition_frames)
        ball1_current == Lerp(td.ball1_pos, td.final_pos, progress)
        ball2_current == Lerp(td.ball2_pos, td.final_pos, progress)
    IN  IF Overlapping(ball1_current, ball2_current, c.ball_radius)
        THEN [array    |-> OverlapArray(c, td, ball1_current, ball2_current),
              ellipses |-> <<Ellipse(IntBBox(ball1_current, c.ball_radius), NoColor),
                             Ellipse(IntBBox(ball2_current, c.ball_radius), NoColor)>>]
        ELSE [array    |-> BlankArray(c),
              ellipses |-> <<Ellipse(BBox(ball1_current, c.ball_radius), td.color1),
                             Ellipse(BBox(ball2_current, c.ball_radius), td.color2)>>]

(***************************************************************************)
(* State                                                                   *)
(***************************************************************************)

VARIABLES
    cfg,               \* self.config
    available,         \* VideoGenerator.is_available()
    video_generator,   \* self.video_generator
    pc,                \* position in generate_task_pair
    color1, color2,    \* the sampled colours
    additive,          \* additive_r, additive_g, additive_b
    scale,             \* scale, NoRecord when no channel sum exceeds 255
    normalized,        \* normalized_r, normalized_g, normalized_b
    mixed_color,       \* mixed_color
    overlap_px,        \* the overlap arrays at one pixel (colour-mixing runs)
    attempts,          \* iterations of the sampling loop completed
    layout,            \* history: how the positions were chosen
    task_data,         \* the task record
    first_image, final_image,
    hold_frames, transition_frames,
    frames,            \* frames of _create_mixing_animation_frames
    i,                 \* index of the running frame loop
    video_path,
    result             \* what generate_task_pair returned or raised

vars == <<cfg, available, video_generator, pc, color1, color2, additive, scale,
          normalized, mixed_color, overlap_px, attempts, layout, task_data,
          first_image, final_image, hold_frames, transition_frames, frames, i,
          video_path, result>>

colorVars == <<color1, color2, additive, scale, normalized, mixed_color>>

envVars == <<cfg, available, video_generator>>

frameVars == <<hold_frames, transition_frames, frames, i>>

imageVars == <<first_image, final_image>>

(***************************************************************************)
(* Actions                                                                 *)
(***************************************************************************)

\* __init__: a video generator exists only when videos are enabled and the
\* encoder is available.
Construct ==
    /\ pc = "init"
    /\ video_generator' =
           IF cfg.generate_videos /\ available THEN "VideoGenerator" ELSE None
    /\ pc' = "colors"
    /\ UNCHANGED <<cfg, available, colorVars, overlap_px, attempts, layout,
                   task_data, imageVars, frameVars, video_path, result>>

\* _generate_task_data, lines 76-114: two random colours and their mix.
GenerateColors(colors) ==
    /\ pc = "colors"
    /\ \E pair \in colors :
          LET sums == AdditiveSum(pair[1], pair[2])
              sc   == ScaleOf(MaxValue(sums))
              norm == Normalize(sums, sc)
          IN  /\ color1' = pair[1]
              /\ color2' = pair[2]
              /\ additive' = sums
              /\ scale' = sc
              /\ normalized' = norm
              /\ mixed_color' = Subtract(norm)
    /\ attempts' = 0
    /\ pc' = "sample"
    /\ UNCHANGED <<envVars, overlap_px, layout, task_data, imageVars,
                   frameVars, video_path, result>>

\* One iteration of the sampling loop whose pair is far enough: return.
DrawAccept ==
    /\ pc = "sample"
    /\ attempts < MaxAttempts
    /\ RangesNonEmpty(cfg)
    /\ \E x1 \in XRange(cfg), y1 \in YRange(cfg),
          x2 \in XRange(cfg), y2 \in YRange(cfg) :
          /\ FarEnough(<<x1, y1>>, <<x2, y2>>, cfg.min_distance)
          /\ task_data' = TaskData(color1, color2, mixed_color,
                                   <<x1, y1>>, <<x2, y2>>)
    /\ layout' = "accepted"
    /\ attempts' = 0
    /\ pc' = "render"
    /\ UNCHANGED <<envVars, colorVars, overlap_px, imageVars, frameVars,
                   video_path, result>>

\* One iteration of the sampling loop whose pair is too close: next one.
DrawReject ==
    /\ pc = "sample"
    /\ attempts < MaxAttempts
    /\ RangesNonEmpty(cfg)
    /\ \E x1 \in XRange(cfg), y1 \in YRange(cfg),
          x2 \in XRange(cfg), y2 \in YRange(cfg) :
          ~FarEnough(<<x1, y1>>, <<x2, y2>>, cfg.min_distance)
    /\ attempts' = attempts + 1
    /\ UNCHANGED <<envVars, pc, colorVars, overlap_px, layout, task_data,
                   imageVars, frameVars, video_path, result>>

\* random.randint on an empty range raises ValueError, which nothing
\* catches: generate_task_pair ends with it.
DrawRaise ==
    /\ pc = "sample"
    /\ attempts < MaxAttempts
    /\ ~RangesNonEmpty(cfg)
    /\ pc' = "raised"
    /\ result' = [raised |-> "ValueError"]
    /\ UNCHANGED <<envVars, colorVars, overlap_px, attempts, layout,
                   task_data, imageVars, frameVars, video_path>>

\* The loop ran out: the fallback layout.
Fallback ==
    /\ pc = "sample"
    /\ attempts = MaxAttempts
    /\ task_data' = TaskData(color1, color2, mixed_color,
                             FallbackBall1(cfg), FallbackBall2(cfg))
    /\ layout' = "fallback"
    /\ attempts' = 0
    /\ pc' = "render"
    /\ UNCHANGED <<envVars, colorVars, overlap_px, imageVars, frameVars,
                   video_path, result>>

\* generate_task_pair, lines 48-49: the two still images.
RenderStills ==
    /\ pc = "render"
    /\ first_image' = RenderInitial(cfg, task_data)
    /\ final_image' = RenderFinal(cfg, task_data)
    /\ pc' = "video"
    /\ UNCHANGED <<envVars, colorVars, overlap_px, attempts, layout,
                   task_data, frameVars, video_path, result>>

\* generate_task_pair, lines 52-53: no video without a video generator.
SkipVideo ==
    /\ pc = "video"
    /\ ~(cfg.generate_videos /\ video_generator # None)
    /\ video_path' = None
    /\ pc' = "return"
    /\ UNCHANGED <<envVars, colorVars, overlap_px, attempts, layout,
                   task_data, imageVars, frameVars, result>>

\* _generate_video calls _create_mixing_animation_frames(task_data).
StartVideo ==
    /\ pc = "video"
    /\ cfg.generate_videos /\ video_generator # None
    /\ hold_frames' = DefaultHoldFrames
    /\ transition_frames' = DefaultTransitionFrames
    /\ frames' = <<>>
    /\ i' = 0
    /\ pc' = "hold_initial"
    /\ UNCHANGED <<envVars, colorVars, overlap_px, attempts, layout,
                   task_data, imageVars, video_path, result>>

\* for _ in range(hold_frames): frames.append(first_frame)
HoldInitial ==
    /\ pc = "hold_initial"
    /\ i < hold_frames
    /\ frames' = Append(frames, RenderInitial(cfg, task_data))
    /\ i' = i + 1
    /\ UNCHANGED <<envVars, pc, colorVars, overlap_px, attempts, layout,
                   task_data, imageVars, hold_frames, transition_frames,
                   video_path, result>>

BeginTransition ==
    /\ pc = "hold_initial"
    /\ i >= hold_frames
    /\ i' = 0
    /\ pc' = "transition"
    /\ UNCHANGED <<envVars, colorVars, overlap_px, attempts, layout,
                   task_data, imageVars, hold_frames, transition_frames,
                   frames, video_path, result>>

\* for i in range(transition_frames): ... frames.append(img)
Transition ==
    /\ pc = "transition"
    /\ i < transition_frames
    /\ frames' = Append(frames,
                        TransitionFrame(cfg, task_data, i, transition_frames))
    /\ i' = i + 1
    /\ UNCHANGED <<envVars, pc, colorVars, overlap_px, attempts, layout,
                   task_data, imageVars, hold_frames, transition_frames,
                   video_path, result>>

BeginHoldFinal ==
    /\ pc = "transition"
    /\ i >= transition_frames
    /\ i' = 0
    /\ pc' = "hold_final"
    /\ UNCHANGED <<envVars, colorVars, overlap_px, attempts, layout,
                   task_data, imageVars, hold_frames, transition_frames,
                   frames, video_path, result>>

\* A final hold that repeats the initial frame.
HoldFinalWithInitialFrame ==
    /\ pc = "hold_final"
    /\ i < hold_frames
    /\ frames' = Append(frames, RenderInitial(cfg, task_data))
    /\ i' = i + 1
    /\ UNCHANGED <<envVars, pc, colorVars, overlap_px, attempts, layout,
                   task_data, imageVars, hold_frames, transition_frames,
                   video_path, result>>

\* for _ in range(hold_frames): frames.append(final_frame)
HoldFinal ==
    /\ pc = "hold_final"
    /\ i < hold_frames
    /\ frames' = Append(frames, RenderFinal(cfg, task_data))
    /\ i' = i + 1
    /\ UNCHANGED <<envVars, pc, colorVars, overlap_px, attempts, layout,
                   task_data, imageVars, hold_frames, transition_frames,
                   video_path, result>>

\* return frames
ReturnFrames ==
    /\ pc = "hold_final"
    /\ i >= hold_frames
    /\ i' = 0
    /\ pc' = "encode"
    /\ UNCHANGED <<envVars, colorVars, overlap_px, attempts, layout,
                   task_data, imageVars, hold_frames, transition_frames,
                   frames, video_path, result>>

\* What create_video_from_frames may return: a path, or nothing.
EncoderResults == {"ground_truth.mp4", None}

\* _generate_video, lines 230-235: str(result) if result else None
Encode ==
    /\ pc = "encode"
    /\ \E r \in EncoderResults : video_path' = r
    /\ pc' = "return"
    /\ UNCHANGED <<envVars, colorVars, overlap_px, attempts, layout,
                   task_data, imageVars, frameVars, result>>

\* PROMPTS["default"]: get_prompt picks one at random.
Prompts == 1..4

\* generate_task_pair, lines 57-68: the TaskPair.
Return ==
    /\ pc = "return"
    /\ \E p \in Prompts :
          result' = [task_id            |-> "task",
                     prompt             |-> p,
                     first_image        |-> first_image,
                     final_image        |-> final_image,
                     ground_truth_video |-> video_path]
    /\ pc' = "done"
    /\ UNCHANGED <<envVars, colorVars, overlap_px, attempts, layout,
                   task_data, imageVars, frameVars, video_path>>

\* The overlap arrays of the compositor at one pixel, for the colours drawn.
MixOverlapPixel ==
    /\ pc = "sample"
    /\ overlap_px = NoRecord
    /\ \E in_overlap \in BOOLEAN :
          overlap_px' = [in_overlap |-> in_overlap,
                         px |-> OverlapPixel(color1, color2, in_overlap)]
    /\ UNCHANGED <<envVars, pc, colorVars, attempts, layout, task_data,
                   imageVars, frameVars, video_path, result>>

(***************************************************************************)
(* Specifications                                                          *)
(***************************************************************************)

\* The configurations of the whole-pipeline runs: the largest canvas, margin
\* and radius, with a minimum distance that accepts every pair, that asks
\* for touching disks, and that no pair meets; and a canvas as high as the
\* margin, whose sampling range is empty.
PipelineConfigs ==
    {c \in Configs :
        /\ c.image_size \in {<<MaxWidth, MaxHeight>>, <<MaxWidth, MaxMargin>>}
        /\ c.edge_margin = MaxMargin
        /\ c.ball_radius = MaxRadius
        /\ c.min_distance \in {0, 2 * MaxRadius, MaxMinDistance}}

NoColors ==
    /\ color1 = NoColor /\ color2 = NoColor /\ additive = NoColor
    /\ scale = NoRecord /\ normalized = NoColor /\ mixed_color = NoColor

NoFrames ==
    /\ hold_frames = 0 /\ transition_frames = 0 /\ frames = <<>> /\ i = 0

NoOutput ==
    /\ first_image = NoRecord /\ final_image = NoRecord
    /\ video_path = None /\ result = NoRecord

Idle ==
    /\ video_generator = None
    /\ NoColors /\ overlap_px = NoRecord
    /\ attempts = 0 /\ layout = None /\ task_data = NoRecord
    /\ NoFrames /\ NoOutput

\* generate_task_pair of a freshly constructed generator.
Init ==
    /\ cfg \in PipelineConfigs
    /\ available \in BOOLEAN
    /\ pc = "init"
    /\ Idle

Next ==
    \/ Construct
    \/ GenerateColors(PipelineColorPairs)
    \/ DrawAccept
    \/ DrawReject
    \/ DrawRaise
    \/ Fallback
    \/ RenderStills
    \/ SkipVideo
    \/ StartVideo
    \/ HoldInitial
    \/ BeginTransition
    \/ Transition
    \/ BeginHoldFinal
    \/ HoldFinal
    \/ ReturnFrames
    \/ Encode
    \/ Return

Spec == Init /\ [][Next]_vars

(***************************************************************************)
(* Colour mixing alone: lines 76-114 on every pair of MixColorPairs, and   *)
(* the compositor's overlap arithmetic on the same pair                    *)
(***************************************************************************)

InitMix ==
    /\ cfg \in {c \in PipelineConfigs : /\ ~c.generate_videos
                                        /\ c.min_distance = 0
                                        /\ RangesNonEmpty(c)}
    /\ available = FALSE
    /\ pc = "colors"
    /\ Idle

NextMix ==
    \/ GenerateColors(MixColorPairs)
    \/ MixOverlapPixel

SpecMix == InitMix /\ [][NextMix]_vars

(***************************************************************************)
(* Position sampling alone: lines 116-162 on every configuration of        *)
(* SamplerConfigs                                                          *)
(***************************************************************************)

\* Every positive width, margin and minimum distance, on the highest canvas.
SamplerConfigs ==
    {c \in Configs : /\ Width(c) >= 1
                     /\ Height(c) = MaxHeight
                     /\ c.ball_radius = MaxRadius
                     /\ ~c.generate_videos}

\* The colour variables after lines 76-114 drew the pair.
ColorsDrawn(pair) ==
    /\ color1 = pair[1]
    /\ color2 = pair[2]
    /\ additive = AdditiveSum(pair[1], pair[2])
    /\ scale = ScaleOf(MaxValue(additive))
    /\ normalized = Normalize(additive, scale)
    /\ mixed_color = Subtract(normalized)

InitSample ==
    /\ cfg \in SamplerConfigs
    /\ available = FALSE
    /\ video_generator = None
    /\ pc = "sample"
    /\ ColorsDrawn(<<<<MinChannel, MinChannel, MinChannel>>,
                     <<MaxChannel, MaxChannel, MaxChannel>>>>)
    /\ overlap_px = NoRecord
    /\ attempts = 0 /\ layout = None /\ task_data = NoRecord
    /\ NoFrames /\ NoOutput

NextSample ==
    \/ DrawAccept
    \/ DrawReject
    \/ DrawRaise
    \/ Fallback

SpecSample == InitSample /\ [][NextSample]_vars

(***************************************************************************)
(* Frame sequencing alone: _create_mixing_animation_frames on the task     *)
(* records the sampler returns, with the default and with small counts     *)
(***************************************************************************)

HoldCounts == (0..MaxHold) \cup {DefaultHoldFrames}

TransitionCounts == (0..MaxTransition) \cup {DefaultTransitionFrames}

\* The accepted pairs of a configuration.
AcceptedPairs(c) ==
    {pp \in (XRange(c) \X YRange(c)) \X (XRange(c) \X YRange(c)) :
        FarEnough(pp[1], pp[2], c.min_distance)}

\* Whether a draw can be rejected, so that the fallback can be reached.
Rejectable(c) ==
    \E pp \in (XRange(c) \X YRange(c)) \X (XRange(c) \X YRange(c)) :
        ~FarEnough(pp[1], pp[2], c.min_distance)

\* The positions _generate_task_data can return.
SampledLayouts(c) ==
    AcceptedPairs(c) \cup
    (IF Rejectable(c) THEN {<<FallbackBall1(c), FallbackBall2(c)>>} ELSE {})

InitFrames ==
    /\ cfg \in {c \in PipelineConfigs : c.generate_videos /\ RangesNonEmpty(c)}
    /\ available = TRUE
    /\ video_generator = "VideoGenerator"
    /\ pc = "hold_initial"
    /\ ColorsDrawn(<<<<160, MinChannel, MinChannel>>,
                     <<159, MinChannel, MinChannel>>>>)
    /\ overlap_px = NoRecord
    /\ attempts = 0
    /\ layout = None
    /\ \E pp \in SampledLayouts(cfg) :
          task_data = TaskData(color1, color2, mixed_color, pp[1], pp[2])
    /\ hold_frames \in HoldCounts
    /\ transition_frames \in TransitionCounts
    /\ frames = <<>>
    /\ i = 0
    /\ NoOutput

NextFrames ==
    \/ HoldInitial
    \/ BeginTransition
    \/ Transition
    \/ BeginHoldFinal
    \/ HoldFinal
    \/ ReturnFrames

SpecFrames == InitFrames /\ [][NextFrames]_vars

(***************************************************************************)
(* Properties of position sampling (SpecSample)                            *)
(***************************************************************************)

\* C1: every task record _generate_task_data returns, whether its pair was
\* accepted in the loop or is the fallback layout, has its two centres at
\* least min_distance apart.
C1_MinDistanceKept ==
    pc = "render" =>
        FarEnough(task_data.ball1_pos, task_data.ball2_pos, cfg.min_distance)

\* C9: for every configuration position sampling raises no error, draws at
\* most MaxAttempts pairs and ends with a task record; the fallback layout
\* is returned only after MaxAttempts rejections.
C9_SamplingNeverRaises ==
    /\ pc # "raised"
    /\ attempts \in 0..MaxAttempts
    /\ pc = "render" =>
          /\ task_data # NoRecord
          /\ layout = "fallback" =>
                /\ task_data.ball1_pos = FallbackBall1(cfg)
                /\ task_data.ball2_pos = FallbackBall2(cfg)
          /\ layout = "accepted" =>
                FarEnough(task_data.ball1_pos, task_data.ball2_pos,
                          cfg.min_distance)

\* C10: the two disks of the initial frame never overlap: the centres of
\* every task record the sampler returns are at least 2 * ball_radius apart,
\* and no pixel lies inside both disks.
C10_InitialDisksApart ==
    pc = "render" =>
        /\ FarEnough(task_data.ball1_pos, task_data.ball2_pos,
                     2 * cfg.ball_radius)
        /\ \A p \in Pixels(cfg) :
              ~OverlapMask(p, RatPoint(task_data.ball1_pos),
                           RatPoint(task_data.ball2_pos), cfg.ball_radius)

\* C11: both centres of every task record, accepted or fallback, lie within
\* the margins, margin <= x <= width - margin and margin <= y <= height -
\* margin, and final_pos is the exact midpoint of the two centres.
C11_WithinMargins ==
    pc = "render" =>
        /\ \A b \in {task_data.ball1_pos, task_data.ball2_pos} :
              /\ cfg.edge_margin <= b[1]
              /\ b[1] <= Width(cfg) - cfg.edge_margin
              /\ cfg.edge_margin <= b[2]
              /\ b[2] <= Height(cfg) - cfg.edge_margin
        /\ \A k \in 1..2 :
              /\ task_data.final_pos[k].d \in {1, 2}
              /\ 2 * task_data.final_pos[k].n
                     = task_data.final_pos[k].d
                       * (task_data.ball1_pos[k] + task_data.ball2_pos[k])

(***************************************************************************)
(* Properties of the colour mix (SpecMix)                                  *)
(***************************************************************************)

\* C2, as the specification states it: mixing (255,255,255) with
\* (255,255,255) gives sums (510,510,510), scale 0.5, normalized
\* (127,127,127) and mixed colour (128,128,128).
C2_ExampleA_AsStated ==
    (pc = "sample" /\ color1 = <<255, 255, 255>> /\ color2 = <<255, 255, 255>>)
        => /\ additive = <<510, 510, 510>>
           /\ scale = FloatDiv(1, 2, Prec64)
           /\ normalized = <<127, 127, 127>>
           /\ mixed_color = <<128, 128, 128>>

\* C2, as the code computes it: mixing (255,255,255) with (255,255,255)
\* gives sums (510,510,510), scale 0.5, normalized (255,255,255) and mixed
\* colour (0,0,0).
C2_ExampleA ==
    (pc = "sample" /\ color1 = <<255, 255, 255>> /\ color2 = <<255, 255, 255>>)
        => /\ additive = <<510, 510, 510>>
           /\ scale = FloatDiv(1, 2, Prec64)
           /\ normalized = <<255, 255, 255>>
           /\ mixed_color = <<0, 0, 0>>

C2_Witness ==
    /\ pc = "sample"
    /\ color1 = <<255, 255, 255>>
    /\ color2 = <<255, 255, 255>>
    /\ mixed_color = <<0, 0, 0>>

\* C3: for all colours the mixed colour is per channel 255 - n, where n is
\* the channel sum s when the largest sum m is at most 255 and
\* floor(s * 255 / m) otherwise; (50,50,50) with (50,50,50) gives
\* (155,155,155).
C3_FloorFormula ==
    pc = "sample" =>
        LET s == [k \in 1..3 |-> color1[k] + color2[k]]
            m == Max3(s[1], s[2], s[3])
            n == [k \in 1..3 |-> IF m <= 255 THEN s[k]
                                             ELSE (s[k] * 255) \div m]
        IN  /\ mixed_color = [k \in 1..3 |-> 255 - n[k]]
            /\ (color1 = <<50, 50, 50>> /\ color2 = <<50, 50, 50>>)
                  => mixed_color = <<155, 155, 155>>

\* C4: every channel of the mixed colour lies in 0..255 with no clamping,
\* and the channel sums reach normalisation untruncated and unwrapped, in
\* the task record and in the compositor's overlap arrays.
C4_RangeWithoutClamping ==
    /\ pc = "sample" =>
          \A k \in 1..3 :
              /\ additive[k] = color1[k] + color2[k]
              /\ normalized[k] \in 0..255
              /\ mixed_color[k] \in 0..255
              /\ mixed_color[k] = 255 - normalized[k]
    /\ (pc = "sample" /\ overlap_px # NoRecord /\ overlap_px.in_overlap) =>
          \A k \in 1..3 :
              /\ FloatTrunc(overlap_px.px.overlap_additive[k])
                     = color1[k] + color2[k]
              /\ FloatTrunc(overlap_px.px.product[k]) \in 0..255
              /\ overlap_px.px.overlap_normalized[k]
                     = FloatTrunc(overlap_px.px.product[k])
              /\ overlap_px.px.overlap_mixed[k]
                     = 255 - overlap_px.px.overlap_normalized[k]

C4_Witness ==
    /\ pc = "sample"
    /\ overlap_px # NoRecord
    /\ overlap_px.in_overlap
    /\ additive[1] = 2 * MaxChannel
    /\ additive[2] = 2 * MinChannel

\* C5: the colour mix is commutative: mixing color1 with color2 gives what
\* mixing color2 with color1 gives.
C5_Commutative ==
    pc = "sample" => mixed_color = MixedColor(color2, color1)

C5_Witness ==
    /\ pc = "sample"
    /\ color1 # color2
    /\ color1[1] # color2[1]
    /\ scale # NoRecord

(***************************************************************************)
(* Properties of the whole pipeline (Spec)                                 *)
(***************************************************************************)

\* C6: in a transition frame whose centres are closer than 2 * radius every
\* pixel of the overlap mask holds one value, and that value is the task
\* record's mixed_color.
C6_OverlapIsMixedColor ==
    (pc = "transition" /\ i > 0) =>
        LET progress == Progress(i - 1, transition_frames)
            b1 == Lerp(task_data.ball1_pos, task_data.final_pos, progress)
            b2 == Lerp(task_data.ball2_pos, task_data.final_pos, progress)
        IN  Overlapping(b1, b2, cfg.ball_radius) =>
                \A p \in Pixels(cfg) :
                    OverlapMask(p, b1, b2, cfg.ball_radius) =>
                        frames[Len(frames)].array[p] = task_data.mixed_color

\* C8: generate_task_pair always returns a TaskPair with both still images;
\* without a video generator, or when the encoder returns nothing, only
\* ground_truth_video is None.
C8_StillsAlwaysReturned ==
    /\ pc # "raised"
    /\ pc = "done" =>
          /\ result.first_image = RenderInitial(cfg, task_data)
          /\ result.final_image = RenderFinal(cfg, task_data)
          /\ video_generator = None => result.ground_truth_video = None

(***************************************************************************)
(* Properties of frame sequencing (SpecFrames)                             *)
(***************************************************************************)

\* C7: the frames come in the order initial hold, transition, final hold and
\* then end: hold_frames copies of the initial frame, the transition frames
\* by increasing index, hold_frames copies of the final frame,
\* 2 * hold_frames + transition_frames in all; with 5 and 25 that is 35
\* frames, the first five alike and the last five alike.
C7_FrameOrder ==
    LET Expected(n) ==
            IF n <= hold_frames THEN RenderInitial(cfg, task_data)
            ELSE IF n <= hold_frames + transition_frames
            THEN TransitionFrame(cfg, task_data, n - hold_frames - 1,
                                 transition_frames)
            ELSE RenderFinal(cfg, task_data)
    IN  /\ pc = "hold_initial" => (i <= hold_frames /\ Len(frames) = i)
        /\ pc = "transition" =>
              (i <= transition_frames /\ Len(frames) = hold_frames + i)
        /\ pc = "hold_final" =>
              /\ i <= hold_frames
              /\ Len(frames) = hold_frames + transition_frames + i
        /\ (pc \in {"hold_initial", "transition", "hold_final"} /\ frames # <<>>)
              => frames[Len(frames)] = Expected(Len(frames))
        /\ pc = "encode" =>
              /\ Len(frames) = 2 * hold_frames + transition_frames
              /\ \A n \in 1..Len(frames) : frames[n] = Expected(n)
              /\ ~ENABLED (HoldInitial \/ Transition \/ HoldFinal)
              /\ (hold_frames = 5 /\ transition_frames = 25) =>
                    /\ Len(frames) = 35
                    /\ \A n \in 1..5 : frames[n] = frames[1]
                    /\ \A n \in 31..35 : frames[n] = frames[31]

C7_Witness ==
    /\ pc = "encode"
    /\ hold_frames = 5
    /\ transition_frames = 25
    /\ Len(frames) = 35
    /\ frames[5] # frames[6]
    /\ frames[30] # frames[31]

\* C12: transition frame i of count has progress i / (count - 1), or 1 when
\* count is 1, and centres start + (final_pos - start) * progress; for
\* count > 1 the first frame has the disks at their start positions; the
\* last frame has both centres at final_pos, is rendered by the overlapping
\* path, and shows the fill colour of the final hold frame.
C12_ProgressAndLastFrame ==
    (pc = "transition" /\ i > 0) =>
        LET count    == transition_frames
            j        == i - 1
            progress == IF count > 1 THEN Rat(j, count - 1) ELSE RatOfInt(1)
            Centre(start) ==
                [k \in 1..2 |->
                    RatAdd(RatOfInt(start[k]),
                           RatMul(RatSub(task_data.final_pos[k],
                                         RatOfInt(start[k])), progress))]
            c1       == Centre(task_data.ball1_pos)
            c2       == Centre(task_data.ball2_pos)
            frame    == frames[Len(frames)]
        IN  /\ frame.ellipses[1].bbox
                   \in {BBox(c1, cfg.ball_radius), IntBBox(c1, cfg.ball_radius)}
            /\ frame.ellipses[2].bbox
                   \in {BBox(c2, cfg.ball_radius), IntBBox(c2, cfg.ball_radius)}
            /\ (count > 1 /\ j = 0) =>
                  /\ c1 = RatPoint(task_data.ball1_pos)
                  /\ c2 = RatPoint(task_data.ball2_pos)
            /\ j = count - 1 =>
                  /\ c1 = task_data.final_pos
                  /\ c2 = task_data.final_pos
                  /\ frame.ellipses[1].fill = NoColor
                  /\ \A p \in Pixels(cfg) :
                        InDisk(p, task_data.final_pos, cfg.ball_radius) =>
                            frame.array[p]
                                = RenderFinal(cfg, task_data).ellipses[1].fill

\* C14: in the overlapping path every pixel is filled by one rule of disk
\* membership, a pixel being inside a disk when its distance to the centre
\* is at most the radius: disk 1 only is color1, disk 2 only is color2, both
\* is the mixed colour, neither is white; the three masks are pairwise
\* disjoint and their union is the union of the two disks.
C14_PixelClassification ==
    (pc = "transition" /\ i > 0 /\ frames[Len(frames)].ellipses[1].fill = NoColor)
        =>
        LET progress == Progress(i - 1, transition_frames)
            b1 == Lerp(task_data.ball1_pos, task_data.final_pos, progress)
            b2 == Lerp(task_data.ball2_pos, task_data.final_pos, progress)
            Inside(p, b) ==
                RatLe(RatSquaredDistance(RatPoint(p), b),
                      RatOfInt(cfg.ball_radius * cfg.ball_radius))
            disk1      == {p \in Pixels(cfg) : Inside(p, b1)}
            disk2      == {p \in Pixels(cfg) : Inside(p, b2)}
            overlap    == disk1 \cap disk2
            ball1_only == disk1 \ overlap
            ball2_only == disk2 \ overlap
            array      == frames[Len(frames)].array
        IN  /\ \A p \in ball1_only : array[p] = task_data.color1
            /\ \A p \in ball2_only : array[p] = task_data.color2
            /\ \A p \in overlap : array[p] = task_data.mixed_color
            /\ \A p \in Pixels(cfg) \ (disk1 \cup disk2) : array[p] = White
            /\ ball1_only \cap ball2_only = {}
            /\ ball1_only \cap overlap = {}
            /\ ball2_only \cap overlap = {}
            /\ ball1_only \cup ball2_only \cup overlap = disk1 \cup disk2

\* C13: a transition frame is rendered by the separated path exactly when
\* its centre distance is at least 2 * radius and by the overlapping path
\* exactly when it is less; the distance never increases from one
\* transition frame to the next, so no separated frame follows an
\* overlapping one.
C13_PathSelection ==
    LET SquaredDistanceAt(j) ==
            RatSquaredDistance(
                Lerp(task_data.ball1_pos, task_data.final_pos,
                     Progress(j, transition_frames)),
                Lerp(task_data.ball2_pos, task_data.final_pos,
                     Progress(j, transition_frames)))
        Limit == RatOfInt((2 * cfg.ball_radius) * (2 * cfg.ball_radius))
        OverlapPath(frame) == frame.ellipses[1].fill = NoColor
        SeparatedPath(frame) ==
            /\ frame.array = BlankArray(cfg)
            /\ frame.ellipses[1].fill = task_data.color1
            /\ frame.ellipses[2].fill = task_data.color2
    IN  /\ (pc = "transition" /\ i > 0) =>
              /\ OverlapPath(frames[Len(frames)])
                     <=> RatLt(SquaredDistanceAt(i - 1), Limit)
              /\ SeparatedPath(frames[Len(frames)])
                     <=> RatLe(Limit, SquaredDistanceAt(i - 1))
        /\ (pc = "transition" /\ i > 1) =>
              /\ RatLe(SquaredDistanceAt(i - 1), SquaredDistanceAt(i - 2))
              /\ OverlapPath(frames[Len(frames) - 1])
                     => OverlapPath(frames[Len(frames)])
        /\ pc = "encode" =>
              \A n, m \in (hold_frames + 1)..(hold_frames + transition_frames) :
                  (n < m /\ OverlapPath(frames[n])) => OverlapPath(frames[m])

C13_Witness ==
    /\ pc = "encode"
    /\ transition_frames = DefaultTransitionFrames
    /\ \E n \in (hold_frames + 1)..(hold_frames + transition_frames - 1) :
          /\ frames[n].ellipses[1].fill = task_data.color1
          /\ frames[n + 1].ellipses[1].fill = NoColor
          /\ frames[Len(frames) - hold_frames].ellipses[1].fill = NoColor
====
